---- MODULE Spec2Model ----
(***************************************************************************)
(* Intergalactic Trade Network: the 'tradeInitiated' settlement listener,  *)
(* the shared EventEmitter it is registered on, and the real-time update   *)
(* subscribers that listen on the same emitter.                            *)
(*                                                                         *)
(* The listener is an async function: it runs synchronously inside emit()  *)
(* up to its first await (newCargo.save()), and every later await is a     *)
(* point where other listeners, other emits and other requests run.  Each  *)
(* store operation (save, updateOne) is atomic on its document.            *)
(* The Cargo's ETA (a wall-clock date) is left out of the Cargo record.    *)
(* Every station a trade names has an Inventory document, so each          *)
(* updateOne matches exactly one document.                                 *)
(***************************************************************************)
EXTENDS Integers, Sequences, FiniteSets, TLC

\* Number of 'tradeInitiated' events the API layer emits in a run.
MaxEvents == 3

\* The same, in the runs with clients on the updates stream.
MaxHubEvents == 2

Stations == {"S1", "B1"}

Handles == {"h1", "h2"}

TransactionIds == {"t1", "t2", "t3"}

\* The Trade records the API layer has created. t1 is the trade of the
\* documentation's example; t2 sells from the same seller and overlaps t1;
\* t3 is a self-trade.
Trade(t) ==
    CASE t = "t1" -> [transactionId |-> "t1", seller |-> "S1", buyer |-> "B1",
                      items |-> <<"widget-1", "widget-2">>]
      [] t = "t2" -> [transactionId |-> "t2", seller |-> "S1", buyer |-> "B1",
                      items |-> <<"widget-2", "widget-3">>]
      [] t = "t3" -> [transactionId |-> "t3", seller |-> "S1", buyer |-> "S1",
                      items |-> <<"widget-3">>]

\* The Trade documents the API layer has stored before it emits.
InitialTrades ==
    [t \in TransactionIds |->
        [transactionId |-> t, seller |-> Trade(t).seller, buyer |-> Trade(t).buyer,
         items |-> Trade(t).items, status |-> "initiated"]]

\* The Inventory documents before any trade.
InitialInventory ==
    [s \in Stations |->
        IF s = "S1"
        THEN [quantity |-> 3, items |-> <<"widget-1", "widget-2", "widget-3">>]
        ELSE [quantity |-> 0, items |-> <<>>]]

VARIABLES
    trades,      \* the Trade collection: transactionId -> document
    cargos,      \* the Cargo collection: a sequence of documents
    inventory,   \* the Inventory collection: stationId -> document
    handlers,    \* one record per invocation of the settlement listener
    published,   \* the events emitted on tradeEventEmitter, in emit order
    listeners,   \* the listeners of 'tradeInitiated', in registration order
    received,    \* per subscriber handle, the indices of the events it was handed
    joinedAt,    \* per handle, Len(published) when it joined (-1: never joined)
    leftAt       \* per handle, Len(published) when it left (-1: has not left)

vars == <<trades, cargos, inventory, handlers, published, listeners, received, joinedAt, leftAt>>

Range(s) == {s[i] : i \in DOMAIN s}

----------------------------------------------------------------------------
\* Store operators

\* shipmentId: `shipment-${trade.transactionId}`
ShipmentId(transactionId) == "shipment-" \o transactionId

\* new Cargo({...})
NewCargo(trade) ==
    [shipmentId  |-> ShipmentId(trade.transactionId),
     origin      |-> trade.seller,
     destination |-> trade.buyer,
     items       |-> trade.items,
     status      |-> "pending"]

\* The unique index on Cargo.shipmentId: save() is rejected with a
\* duplicate-key error when a document with that shipmentId exists.
DuplicateKey(coll, doc) == \E i \in DOMAIN coll : coll[i].shipmentId = doc.shipmentId

\* $push with $each in place of $addToSet: values are appended unconditionally.
PushEach(arr, each) == arr \o each

\* $addToSet with $each: every value not yet in the array is appended once.
RECURSIVE AddToSet(_, _)
AddToSet(arr, each) ==
    IF each = <<>> THEN arr
    ELSE AddToSet(IF Head(each) \in Range(arr) THEN arr ELSE Append(arr, Head(each)),
                  Tail(each))

\* $pullAll: every instance of the listed values is removed.
PullAll(arr, vals) == SelectSeq(arr, LAMBDA x : x \notin Range(vals))

\* The buyer's update overwrites the items array ($set) instead of adding to it.
BuyerUpdateOverwrite(doc, trade) ==
    [quantity |-> doc.quantity + Len(trade.items),
     items    |-> trade.items]

\* { $inc: { quantity: trade.items.length }, $addToSet: { items: { $each: trade.items } } }
BuyerUpdate(doc, trade) ==
    [quantity |-> doc.quantity + Len(trade.items),
     items    |-> AddToSet(doc.items, trade.items)]

\* The seller's $inc decrements by one instead of by trade.items.length.
SellerUpdateByOne(doc, trade) ==
    [quantity |-> doc.quantity - 1,
     items    |-> PullAll(doc.items, trade.items)]

\* { $inc: { quantity: -trade.items.length }, $pullAll: { items: trade.items } }
SellerUpdate(doc, trade) ==
    [quantity |-> doc.quantity - Len(trade.items),
     items    |-> PullAll(doc.items, trade.items)]

----------------------------------------------------------------------------
\* The settlement listener

\* A listener that records its outcome on the Trade document.
MarkTrade(tr, hr) ==
    [tr EXCEPT ![hr.trade.transactionId].status =
        IF hr.pc # "done" THEN @
        ELSE IF hr.log.level = "info" THEN "settled" ELSE "failed"]

\* The Trade collection after a step of the listener: the listener imports
\* the Cargo and Inventory models only and assigns nothing to its argument.
TradesAfter(tr, hr) == tr

\* Whether the seller holds every item of the trade (the listener never asks).
SellerHoldsAll(inv, trade) == Range(trade.items) \subseteq Range(inv[trade.seller].items)

\* The listener invoked by emit: it has built the Cargo and called save().
StartHandler(trade, inv) ==
    [trade        |-> trade,
     pc           |-> "save",
     applied      |-> {},
     log          |-> [level |-> "none", error |-> "none"],
     insufficient |-> ~SellerHoldsAll(inv, trade)]

\* A try/catch around each statement instead of around the whole body: the
\* error is logged and the listener goes on with its next statement.
CatchErrorAndGoOn(hr, error) ==
    [hr EXCEPT !.pc = IF @ = "save" THEN "buyer" ELSE IF @ = "buyer" THEN "seller" ELSE "done",
               !.log = [level |-> "error", error |-> error]]

\* catch (error) { console.error("Error processing trade event:", error); }
CatchError(hr, error) ==
    [hr EXCEPT !.pc = "done", !.log = [level |-> "error", error |-> error]]

\* A write has been applied and the listener goes on to its next statement.
Proceed(hr, write, next) ==
    [hr EXCEPT !.pc = next, !.applied = @ \cup {write}]

\* console.log(`Cargo created and inventory updated for trade ...`)
LogSuccess(hr) ==
    [hr EXCEPT !.log = [level |-> "info", error |-> "none"]]

----------------------------------------------------------------------------
Init ==
    /\ trades = InitialTrades
    /\ cargos = <<>>
    /\ inventory = InitialInventory
    /\ handlers = <<>>
    /\ published = <<>>
    /\ listeners = <<"settlement">>
    /\ received = [h \in Handles |-> <<>>]
    /\ joinedAt = [h \in Handles |-> -1]
    /\ leftAt = [h \in Handles |-> -1]

\* The listeners emit() calls: in registration order, up to and including
\* the first one that throws; the exception leaves emit() and the listeners
\* after it are not called.
Called(ls, thrower) ==
    IF thrower \in Range(ls)
    THEN LET k == CHOOSE i \in DOMAIN ls : ls[i] = thrower IN SubSeq(ls, 1, k)
    ELSE ls

\* tradeEventEmitter.emit('tradeInitiated', trade), with `thrower` the
\* subscriber whose listener throws on this event ("none": nobody throws).
\* The settlement listener is async and wraps its body in try/catch, so it
\* never throws into emit().
Emit(t, thrower) ==
    /\ Len(published) < MaxEvents
    /\ thrower \in (Range(listeners) \ {"settlement"}) \cup {"none"}
    /\ LET n == Len(published) + 1
           called == Range(Called(listeners, thrower))
       IN  /\ published' = Append(published,
                  [topic |-> "tradeInitiated", transactionId |-> t,
                   listeners |-> Range(listeners), thrower |-> thrower])
           /\ handlers' = IF "settlement" \in called
                          THEN Append(handlers, StartHandler(Trade(t), inventory))
                          ELSE handlers
           /\ received' = [h \in Handles |->
                  IF h \in called THEN Append(received[h], n) ELSE received[h]]
    /\ UNCHANGED <<trades, cargos, inventory, listeners, joinedAt, leftAt>>

\* await newCargo.save()
SaveCargo(h) ==
    /\ handlers[h].pc = "save"
    /\ LET doc == NewCargo(handlers[h].trade)
       IN  IF DuplicateKey(cargos, doc)
           THEN /\ handlers' = [handlers EXCEPT ![h] = CatchError(@, "DuplicateKey")]
                /\ UNCHANGED cargos
           ELSE /\ cargos' = Append(cargos, doc)
                /\ handlers' = [handlers EXCEPT ![h] = Proceed(@, "cargo", "buyer")]
    /\ trades' = TradesAfter(trades, handlers'[h])
    /\ UNCHANGED <<inventory, published, listeners, received, joinedAt, leftAt>>

\* await Inventory.updateOne({ stationId: trade.buyer }, ...)
UpdateBuyer(h) ==
    /\ handlers[h].pc = "buyer"
    /\ LET trade == handlers[h].trade
       IN  inventory' = [inventory EXCEPT ![trade.buyer] = BuyerUpdate(@, trade)]
    /\ handlers' = [handlers EXCEPT ![h] = Proceed(@, "buyer", "seller")]
    /\ trades' = TradesAfter(trades, handlers'[h])
    /\ UNCHANGED <<cargos, published, listeners, received, joinedAt, leftAt>>

\* await Inventory.updateOne({ stationId: trade.seller }, ...); console.log(...)
UpdateSeller(h) ==
    /\ handlers[h].pc = "seller"
    /\ LET trade == handlers[h].trade
       IN  inventory' = [inventory EXCEPT ![trade.seller] = SellerUpdate(@, trade)]
    /\ handlers' = [handlers EXCEPT ![h] = LogSuccess(Proceed(@, "seller", "done"))]
    /\ trades' = TradesAfter(trades, handlers'[h])
    /\ UNCHANGED <<cargos, published, listeners, received, joinedAt, leftAt>>

\* The store rejects the write the listener is waiting for (connection lost,
\* validation, timeout): the await throws and the catch block logs.
StoreWriteFails(h) ==
    /\ handlers[h].pc \in {"save", "buyer", "seller"}
    /\ handlers' = [handlers EXCEPT ![h] = CatchError(@, "StoreWriteError")]
    /\ trades' = TradesAfter(trades, handlers'[h])
    /\ UNCHANGED <<cargos, inventory, published, listeners, received, joinedAt, leftAt>>

\* A client opens the real-time updates stream: its listener is registered
\* on the emitter after the ones registered at start-up.
Join(s) ==
    /\ joinedAt[s] = -1
    /\ listeners' = Append(listeners, s)
    /\ joinedAt' = [joinedAt EXCEPT ![s] = Len(published)]
    /\ UNCHANGED <<trades, cargos, inventory, handlers, published, received, leftAt>>

\* The client closes the stream but its listener stays registered.
LeaveKeepsListener(s) ==
    /\ s \in Range(listeners)
    /\ s # "settlement"
    /\ leftAt[s] = -1
    /\ leftAt' = [leftAt EXCEPT ![s] = Len(published)]
    /\ UNCHANGED <<trades, cargos, inventory, handlers, published, listeners,
                   received, joinedAt>>

\* The client closes the stream: its listener is removed.
Leave(s) ==
    /\ s \in Range(listeners)
    /\ s # "settlement"
    /\ listeners' = SelectSeq(listeners, LAMBDA l : l # s)
    /\ leftAt' = [leftAt EXCEPT ![s] = Len(published)]
    /\ UNCHANGED <<trades, cargos, inventory, handlers, published, received, joinedAt>>

EmitAny == \E t \in TransactionIds, thrower \in Handles \cup {"none"} : Emit(t, thrower)
SaveAny == \E h \in DOMAIN handlers : SaveCargo(h)
BuyerAny == \E h \in DOMAIN handlers : UpdateBuyer(h)
SellerAny == \E h \in DOMAIN handlers : UpdateSeller(h)
FailAny == \E h \in DOMAIN handlers : StoreWriteFails(h)
JoinAny == \E s \in Handles : Join(s)
LeaveAny == \E s \in Handles : Leave(s)

\* Settlement alone: no client is connected to the updates stream.
Next == EmitAny \/ SaveAny \/ BuyerAny \/ SellerAny \/ FailAny

Spec == Init /\ [][Next]_vars

\* Emits while clients are connected: trade t1, possibly more than once.
EmitHub ==
    /\ Len(published) < MaxHubEvents
    /\ \E t \in {"t1"}, thrower \in Handles \cup {"none"} : Emit(t, thrower)

\* Settlement with clients joining and leaving the updates stream.
NextHub == EmitHub \/ SaveAny \/ BuyerAny \/ SellerAny \/ FailAny \/ JoinAny \/ LeaveAny

SpecHub == Init /\ [][NextHub]_vars

----------------------------------------------------------------------------
\* Properties of settlement (checked under Spec)

HandlersOf(t) == {h \in DOMAIN handlers : handlers[h].trade.transactionId = t}

CargoCount(t) == Cardinality({i \in DOMAIN cargos : cargos[i].shipmentId = "shipment-" \o t})

AppliedCount(t, write) == Cardinality({h \in HandlersOf(t) : write \in handlers[h].applied})

NoNegativeInventory == \A s \in Stations : inventory[s].quantity >= 0

\* C3 - Insufficient inventory aborts without mutation: an invocation whose
\* seller did not hold every item of the trade when the event arrived
\* applies no write at all (no Cargo, no inventory adjustment).
InsufficientAborts ==
    \A h \in DOMAIN handlers : handlers[h].insufficient => handlers[h].applied = {}

RECURSIVE SumApplied(_, _, _)
SumApplied(n, s, write) ==
    IF n = 0 THEN 0
    ELSE SumApplied(n - 1, s, write)
         + (IF /\ write \in handlers[n].applied
               /\ s = (IF write = "buyer" THEN handlers[n].trade.buyer
                                          ELSE handlers[n].trade.seller)
            THEN Len(handlers[n].trade.items) ELSE 0)

TotalQuantity(inv) == inv["S1"].quantity + inv["B1"].quantity

\* C4 - Conservation: every applied seller debit lowers the seller's quantity
\* by the number of items of its trade and every applied buyer credit raises
\* the buyer's by the same number, so a station's quantity is its initial
\* quantity plus its credits minus its debits, and when every trade that
\* credited its buyer has also debited its seller the total quantity is the
\* initial total.
Conservation ==
    /\ \A s \in Stations :
          inventory[s].quantity =
              InitialInventory[s].quantity
                  + SumApplied(Len(handlers), s, "buyer")
                  - SumApplied(Len(handlers), s, "seller")
    /\ (\A h \in DOMAIN handlers :
            ("buyer" \in handlers[h].applied) <=> ("seller" \in handlers[h].applied))
       => TotalQuantity(inventory) = TotalQuantity(InitialInventory)

\* C4 witness: a trade between two different stations has settled.
ConservationWitness ==
    \E h \in DOMAIN handlers :
        /\ handlers[h].log.level = "info"
        /\ handlers[h].trade.seller # handlers[h].trade.buyer
        /\ inventory[handlers[h].trade.buyer].quantity > InitialInventory[handlers[h].trade.buyer].quantity

NoDuplicates(arr) == \A i, j \in DOMAIN arr : arr[i] = arr[j] => i = j

\* C5 - Result of a successful settlement: the save adds the Cargo
\* {shipmentId "shipment-" + transactionId, origin seller, destination buyer,
\* items, status pending}; the buyer update leaves the buyer holding its
\* previous items united with the trade's, without duplicates; the seller
\* update leaves the seller holding its previous items minus the trade's;
\* and when the invocation completes that Cargo is in the collection.
SettlementResult ==
    [][\A h \in DOMAIN handlers :
          LET T == handlers[h].trade
              new == handlers'[h].applied \ handlers[h].applied
              cargo == [shipmentId  |-> "shipment-" \o T.transactionId,
                        origin      |-> T.seller,
                        destination |-> T.buyer,
                        items       |-> T.items,
                        status      |-> "pending"]
          IN  /\ "cargo" \in new => cargos' = Append(cargos, cargo)
              /\ "buyer" \in new =>
                    /\ Range(inventory'[T.buyer].items) =
                           Range(inventory[T.buyer].items) \cup Range(T.items)
                    /\ NoDuplicates(inventory'[T.buyer].items)
              /\ "seller" \in new =>
                    Range(inventory'[T.seller].items) =
                        Range(inventory[T.seller].items) \ Range(T.items)
              /\ handlers'[h].log.level = "info" =>
                    /\ handlers'[h].applied = {"cargo", "buyer", "seller"}
                    /\ \E i \in DOMAIN cargos' : cargos'[i] = cargo
      ]_vars

\* C5 witness: the documentation's example has settled: S1 is left with
\* widget-3 and B1 holds widget-1 and widget-2.
SettlementResultWitness ==
    /\ \E h \in DOMAIN handlers :
          handlers[h].log.level = "info" /\ handlers[h].trade.transactionId = "t1"
    /\ inventory["S1"] = [quantity |-> 1, items |-> <<"widget-3">>]
    /\ inventory["B1"] = [quantity |-> 2, items |-> <<"widget-1", "widget-2">>]
    /\ \E i \in DOMAIN cargos : cargos[i].shipmentId = "shipment-t1"

\* C7 - All-or-nothing store writes: when an invocation has finished, either
\* all three writes (Cargo, buyer, seller) are applied or none is.
AllOrNothing ==
    \A h \in DOMAIN handlers :
        handlers[h].pc = "done" =>
            handlers[h].applied \in {{}, {"cargo", "buyer", "seller"}}

\* C10 - Failure is observable and not retried: an invocation that has ended
\* for a trade whose seller lacked the items carries the failure signal
\* InsufficientInventoryError, one that ended on a rejected write carries a
\* different one, and no event is settled more often than it was published.
FailureObservable ==
    /\ \A h \in DOMAIN handlers :
          handlers[h].pc = "done" =>
              /\ (handlers[h].insufficient /\ handlers[h].log.error = "none")
                    => handlers[h].log = [level |-> "error",
                                          error |-> "InsufficientInventoryError"]
              /\ handlers[h].applied # {"cargo", "buyer", "seller"}
                    => handlers[h].log.level = "error"
    /\ Len(handlers) <= Len(published)

----------------------------------------------------------------------------
\* Properties of the updates stream (checked under SpecHub).
\* The settlement listener is registered first and is called on every emit,
\* so invocation h of the listener is the one for published[h].

Joined(s) == joinedAt[s] # -1 /\ leftAt[s] = -1

\* C6 - Ordering: a subscriber that joined before a trade's event was
\* published, and is still joined when the trade has settled, has received
\* the trade's cargoCreated event and, after it and with larger sequence
\* numbers, the trade's inventoryAdjusted events.
DerivedEventsOrdered ==
    \A h \in DOMAIN handlers, s \in Handles :
        (handlers[h].log.level = "info" /\ Joined(s) /\ joinedAt[s] < h) =>
            \E c \in DOMAIN received[s] :
                /\ published[received[s][c]].topic = "cargoCreated"
                /\ published[received[s][c]].transactionId = handlers[h].trade.transactionId
                /\ \E a \in DOMAIN received[s] :
                      /\ published[received[s][a]].topic = "inventoryAdjusted"
                      /\ published[received[s][a]].transactionId
                            = handlers[h].trade.transactionId
                /\ \A a \in DOMAIN received[s] :
                      (/\ published[received[s][a]].topic = "inventoryAdjusted"
                       /\ published[received[s][a]].transactionId
                            = handlers[h].trade.transactionId)
                      => (c < a /\ received[s][c] < received[s][a])

\* The events published from position `from` + 1 up to position `to`.
Window(from, to) == [i \in 1..(to - from) |-> from + i]

\* C8 - Broadcast delivery: a handle has received exactly the events
\* published after it joined and before it left, each once, in publish order.
BroadcastDelivery ==
    \A s \in Handles :
        joinedAt[s] # -1 =>
            received[s] = Window(joinedAt[s],
                                 IF leftAt[s] = -1 THEN Len(published) ELSE leftAt[s])

\* C9 - Isolation: when a listener throws on an event, every other listener
\* that was registered for it has still received it, and the settlement
\* listener has been invoked for it.
Isolation ==
    /\ Len(handlers) = Len(published)
    /\ \A i \in DOMAIN published :
          published[i].thrower # "none" =>
              \A l \in published[i].listeners \ {published[i].thrower, "settlement"} :
                  i \in Range(received[l])

----------------------------------------------------------------------------
\* Further properties of settlement (checked under Spec)

InFlight(h) == handlers[h].pc \in {"save", "buyer", "seller"}

\* C11 - Per-trade serialization: no two invocations of the listener for the
\* same transactionId are in progress (between arrival and last store write)
\* at the same time.
PerTradeSerialized ==
    \A h1, h2 \in DOMAIN handlers :
        (h1 # h2 /\ handlers[h1].trade.transactionId = handlers[h2].trade.transactionId)
            => ~(InFlight(h1) /\ InFlight(h2))

\* The orders in which n settlements can be applied one after the other.
Orders(n) == {f \in [1..n -> 1..n] : \A i, j \in 1..n : f[i] = f[j] => i = j}

\* Station s after settlement h alone has applied to it the writes it got
\* through: the credit if s is its buyer, then the debit if s is its seller.
ApplyOne(doc, s, h) ==
    LET T == handlers[h].trade
        credited == IF "buyer" \in handlers[h].applied /\ T.buyer = s
                    THEN [quantity |-> doc.quantity + Len(T.items),
                          items |-> doc.items \cup Range(T.items)]
                    ELSE doc
    IN  IF "seller" \in handlers[h].applied /\ T.seller = s
        THEN [quantity |-> credited.quantity - Len(T.items),
              items |-> credited.items \ Range(T.items)]
        ELSE credited

RECURSIVE ApplyInOrder(_, _, _, _)
ApplyInOrder(doc, s, order, k) ==
    IF k > Len(order) THEN doc
    ELSE ApplyInOrder(ApplyOne(doc, s, order[k]), s, order, k + 1)

\* C12 - No lost inventory updates: when every invocation has ended, each
\* station's quantity and item set are what applying the settlements that
\* touched it one after the other, in some order, gives.
NoLostUpdates ==
    (\A h \in DOMAIN handlers : handlers[h].pc = "done") =>
        \A s \in Stations :
            \E order \in Orders(Len(handlers)) :
                ApplyInOrder([quantity |-> InitialInventory[s].quantity,
                              items |-> Range(InitialInventory[s].items)],
                             s, order, 1)
                    = [quantity |-> inventory[s].quantity,
                       items |-> Range(inventory[s].items)]

\* C12 witness: t1 was published before t2, both settled, and t2's credit
\* reached B1 before t1's: the two settlements overlapped on B1 and S1.
NoLostUpdatesWitness ==
    /\ Len(handlers) = 2
    /\ handlers[1].trade.transactionId = "t1" /\ handlers[1].log.level = "info"
    /\ handlers[2].trade.transactionId = "t2" /\ handlers[2].log.level = "info"
    /\ inventory["B1"].items = <<"widget-2", "widget-3", "widget-1">>

\* C13 - Sequence numbers: every published event carries a sequence number,
\* and an event published later carries a strictly larger one.
SequenceNumbers ==
    \A i \in DOMAIN published :
        /\ "seq" \in DOMAIN published[i]
        /\ \A j \in 1..(i - 1) : published[j].seq < published[i].seq

\* C15 - Trade records are read-only for settlement: no step changes a Trade
\* document.
TradesReadOnly == [][trades' = trades]_vars

\* C15 witness: one invocation settled its trade, one was turned away as a
\* replay and one ended on a rejected write; the Trade documents are as the
\* API layer stored them.
TradesReadOnlyWitness ==
    /\ \E h \in DOMAIN handlers : handlers[h].log.level = "info"
    /\ \E h \in DOMAIN handlers : handlers[h].log.error = "DuplicateKey"
    /\ \E h \in DOMAIN handlers : handlers[h].log.error = "StoreWriteError"
    /\ \A t \in TransactionIds : trades[t].status = "initiated"

EventCount(pub, topic, t) ==
    Cardinality({i \in DOMAIN pub : pub[i].topic = topic /\ pub[i].transactionId = t})

\* C16 - Replay guard emits nothing: an invocation that is about to save
\* while a Cargo with its shipmentId exists ends without applying a write
\* and without publishing; its step leaves the Cargo and Inventory
\* collections and the published events as they were. No transactionId ever
\* has more than one cargoCreated or more than two inventoryAdjusted events.
ReplayGuard ==
    [][/\ \A h \in DOMAIN handlers :
            (/\ handlers[h].pc = "save"
             /\ \E i \in DOMAIN cargos :
                   cargos[i].shipmentId = "shipment-" \o handlers[h].trade.transactionId)
            => /\ handlers'[h].applied = {}
               /\ handlers'[h].pc \in {"save", "done"}
               /\ handlers'[h] # handlers[h] =>
                     /\ cargos' = cargos
                     /\ inventory' = inventory
                     /\ published' = published
       /\ \A h \in DOMAIN handlers :
            handlers[h].log.error = "DuplicateKey" =>
                handlers'[h].applied = {} /\ handlers'[h].pc = "done"
       /\ \A t \in TransactionIds :
            /\ EventCount(published', "cargoCreated", t) <= 1
            /\ EventCount(published', "inventoryAdjusted", t) <= 2
      ]_vars

\* C16 witness: a replay was turned away while the first invocation for the
\* same transactionId was still between its writes.
ReplayGuardWitness ==
    \E h1, h2 \in DOMAIN handlers :
        /\ h1 < h2
        /\ handlers[h1].trade.transactionId = handlers[h2].trade.transactionId
        /\ handlers[h1].pc = "seller"
        /\ handlers[h2].log.error = "DuplicateKey"
        /\ handlers[h2].applied = {}

\* C17 - Quantity matches the held set: when every invocation has ended
\* with all of its writes or none, each station's quantity is the number of
\* item identifiers it holds (as it was before the trades).
QuantityMatchesItems ==
    (\A h \in DOMAIN handlers :
        /\ handlers[h].pc = "done"
        /\ handlers[h].log.level = "info" \/ handlers[h].applied = {})
    => \A s \in Stations : inventory[s].quantity = Cardinality(Range(inventory[s].items))

\* C18 - Self-trade is neutral: when the only trade published is a settled
\* self-trade whose station held all its items, the station's Inventory is
\* what it was before.
SelfTradeNeutral ==
    (/\ Len(handlers) = 1
     /\ handlers[1].trade.seller = handlers[1].trade.buyer
     /\ ~handlers[1].insufficient
     /\ handlers[1].log.level = "info")
    => inventory[handlers[1].trade.seller] = InitialInventory[handlers[1].trade.seller]

----------------------------------------------------------------------------
\* Further properties of the updates stream (checked under SpecHub)

\* C14 - At-most-once, no redelivery: a handle is handed no event twice, no
\* event published before it joined and no event published after it left.
AtMostOnce ==
    \A s \in Handles :
        /\ NoDuplicates(received[s])
        /\ \A k \in DOMAIN received[s] :
              /\ joinedAt[s] # -1
              /\ received[s][k] > joinedAt[s]
              /\ leftAt[s] = -1 \/ received[s][k] <= leftAt[s]

\* C14 witness: one handle left after the first event and missed the second;
\* the other joined after the first event and got only the second.
AtMostOnceWitness ==
    \E s1, s2 \in Handles :
        /\ Len(published) = 2
        /\ joinedAt[s1] = 0 /\ leftAt[s1] = 1 /\ received[s1] = <<1>>
        /\ joinedAt[s2] = 1 /\ received[s2] = <<2>>

====
